---- MODULE Spec2Model ----
(***************************************************************************)
(* A model of name.py: a command line script that searches PubMed, fetches *)
(* the summaries of the matching papers and prints them or saves them as   *)
(* CSV.                                                                    *)
(*                                                                         *)
(* A Python str that is data (an identifier, a title, a date, a CSV field, *)
(* the content of a file) is a sequence of tokens; a token is one of the   *)
(* characters the csv module treats specially (comma, double quote, CR,    *)
(* LF) or a run of ordinary characters.  Dictionary keys written in the    *)
(* code are TLA+ strings.  A JSON value is a tagged record.                *)
(***************************************************************************)
EXTENDS Integers, Sequences, FiniteSets, TLC

VARIABLES
  pc,                \* where the script is: start, search, summary, fetched, done
  args,              \* the parsed command line
  loggerLevel,       \* the level of the module's logger
  log,               \* the messages logged
  requests,          \* the HTTP requests issued, in order
  response,          \* the search response
  ids,               \* the identifiers fetch_papers read from it
  details_response,  \* the summary response
  papers,            \* what fetch_papers returned
  fs,                \* the file at the output path
  fs_before,         \* that file when the script started
  opens,             \* how often the script opened it for writing
  stdout,            \* the lines printed
  raised,            \* the exceptions that left the try block of main
  exitCode           \* the exit status of the process, -1 while it runs

vars == <<pc, args, loggerLevel, log, requests, response, ids, details_response,
          papers, fs, fs_before, opens, stdout, raised, exitCode>>

\* ---------------------------------------------------------------- bounds
\* The longest identifier list a search response carries in the model.
MaxIds == 2

\* ------------------------------------------------------- program constants
retmax == 10

DELIM == ","
QUOTE == "\""
CR == "\r"
LF == "\n"

base_url == "esearch.fcgi"
details_url == "esummary.fcgi"

fieldnames == <<"PubmedID", "Title", "Publication Date",
                "Non-academic Author(s)", "Company Affiliation(s)",
                "Corresponding Author Email">>

NonAcademicPlaceholder == <<"Heuristic not implemented">>
CompanyPlaceholder == <<"Heuristic not implemented">>
EmailPlaceholder == <<"Not available">>

\* ------------------------------------------------------------ input pools
IdPool == {<<"111">>, <<"222">>}

TitlePool == {<<"T">>, <<"a", ",", "b">>, <<"say ", "\"", "hi", "\"">>,
              <<"l1", "\n", "l2">>, <<"x", "\r", "\n">>}

PubDatePool == {<<"2020 Jan">>, <<>>}

Queries == {"cancer"}

\* The -f argument: absent (None), given as the empty string, or a path.
FileArgs == {[given |-> FALSE, path |-> ""],
             [given |-> TRUE, path |-> ""],
             [given |-> TRUE, path |-> "out.csv"]}

NoFile == [exists |-> FALSE, data |-> <<>>]
OldFile == [exists |-> TRUE, data |-> <<"old", ",", "content", "\r", "\n">>]

RECURSIVE SeqsUpTo(_, _)
SeqsUpTo(S, n) ==
  IF n = 0 THEN {<<>>}
  ELSE LET shorter == SeqsUpTo(S, n - 1)
       IN shorter \cup {Append(s, x) : s \in {t \in shorter : Len(t) = n - 1}, x \in S}

\* ------------------------------------------------------------------- JSON
JInvalid == [k |-> "invalid"]              \* the body is not JSON: json() raises
JNull == [k |-> "null"]                    \* a JSON value that is no object
JObj(f) == [k |-> "obj", v |-> f]          \* a JSON object, f its mapping
JList(s) == [k |-> "list", v |-> s]
JStr(s) == [k |-> "str", v |-> s]

Entry(key, val) == key :> val
EmptyDict == JObj(<<>>)

IsDict(j) == j.k = "obj"
HasKey(j, key) == key \in DOMAIN j.v

\* dict.get(key, default) on a value that is a dict
Get(j, key, default) == IF HasKey(j, key) THEN j.v[key] ELSE default

\* bool(x) of a JSON value
Truthy(j) ==
  CASE j.k = "null" -> FALSE
    [] j.k = "list" -> Len(j.v) > 0
    [] j.k = "str" -> Len(j.v) > 0
    [] j.k = "obj" -> DOMAIN j.v # {}
    [] OTHER -> TRUE

\* Bodies of the search response.
IdLists == SeqsUpTo(IdPool, MaxIds)

SearchBodies ==
  {JInvalid, JNull, EmptyDict,
   JObj(Entry("esearchresult", JNull)),
   JObj(Entry("esearchresult", EmptyDict))}
  \cup {JObj(Entry("esearchresult", JObj(Entry("idlist", JList(l))))) : l \in IdLists}

\* Bodies of the summary response.
Summaries ==
  {JNull} \cup
  {JObj(f) : f \in
     {<<>>}
     \cup {Entry("title", JStr(t)) : t \in TitlePool}
     \cup {Entry("pubdate", JStr(d)) : d \in PubDatePool}
     \cup {Entry("title", JStr(t)) @@ Entry("pubdate", JStr(d)) :
             t \in TitlePool, d \in PubDatePool}}

ResultMaps ==
  UNION {[S -> Summaries] : S \in SUBSET IdPool}

DetailsBodies ==
  {JInvalid, JNull, EmptyDict, JObj(Entry("result", JNull))}
  \cup {JObj(Entry("result", JObj(m))) : m \in ResultMaps}

\* A response: its status and its body.  A response with an error status
\* has a body that is no JSON or a JSON object that reports the error.
NoResponse == [ok |-> FALSE, body |-> JInvalid]
ErrorBody == JObj(Entry("error", JStr(<<"API rate limit exceeded">>)))
Responses(bodies) ==
  {[ok |-> FALSE, body |-> b] : b \in {JInvalid, ErrorBody}}
  \cup {[ok |-> TRUE, body |-> b] : b \in bodies}

\* -------------------------------------------------------------- exceptions
HTTPError == [type |-> "HTTPError", msg |-> "HTTP error status"]
JSONDecodeError == [type |-> "JSONDecodeError", msg |-> "Expecting value"]
AttributeError == [type |-> "AttributeError", msg |-> "object has no attribute 'get'"]
OSError == [type |-> "OSError", msg |-> "cannot write"]

\* The classes "except Exception" catches.
ExceptionClasses == {"HTTPError", "JSONDecodeError", "AttributeError", "OSError"}

Raise(e) == [tag |-> "raise", exc |-> e]
Return(ps) == [tag |-> "return", papers |-> ps]

\* ----------------------------------------------------------------- logging
Enabled(level, lvl) ==
  CASE level = "DEBUG" -> lvl \in {"DEBUG", "INFO", "ERROR"}
    [] level = "INFO" -> lvl \in {"INFO", "ERROR"}

Emit(lg, level, lvl, msg, arg) ==
  IF Enabled(level, lvl) THEN Append(lg, [level |-> lvl, msg |-> msg, arg |-> arg])
  ELSE lg

\* ------------------------------------------------------------ fetch_papers
search_params(query) ==
  [db |-> "pubmed", term |-> query, retmax |-> retmax, retmode |-> "json"]

RECURSIVE Join(_)
\* ",".join(ids)
Join(l) ==
  IF Len(l) = 0 THEN <<>>
  ELSE IF Len(l) = 1 THEN l[1]
  ELSE l[1] \o <<DELIM>> \o Join(Tail(l))

RECURSIVE Reverse(_)
Reverse(l) == IF Len(l) = 0 THEN <<>> ELSE Append(Reverse(Tail(l)), l[1])

\* details_params with the identifiers in the opposite order.
details_params_reversed(idl) ==
  [db |-> "pubmed", id |-> Join(Reverse(idl)), retmode |-> "json"]

details_params(idl) ==
  [db |-> "pubmed", id |-> Join(idl), retmode |-> "json"]

SearchRequest(query) == [url |-> base_url, params |-> search_params(query)]
DetailsRequest(idl) == [url |-> details_url, params |-> details_params(idl)]

\* SearchPhase without the early return of lines 29-30.
SearchPhaseNoEmptyCheck(resp) ==
  LET body == resp.body IN
  IF ~resp.ok THEN Raise(HTTPError)
  ELSE IF body = JInvalid THEN Raise(JSONDecodeError)
  ELSE IF ~IsDict(body) THEN Raise(AttributeError)
  ELSE LET esearchresult == Get(body, "esearchresult", EmptyDict)
       IN IF ~IsDict(esearchresult) THEN Raise(AttributeError)
          ELSE [tag |-> "request", ids |-> Get(esearchresult, "idlist", JList(<<>>)).v]

\* SearchPhase without raise_for_status of line 25.
SearchPhaseNoRaiseForStatus(resp) ==
  LET body == resp.body IN
  IF body = JInvalid THEN Raise(JSONDecodeError)
  ELSE IF ~IsDict(body) THEN Raise(AttributeError)
  ELSE LET esearchresult == Get(body, "esearchresult", EmptyDict)
       IN IF ~IsDict(esearchresult) THEN Raise(AttributeError)
          ELSE LET idlist == Get(esearchresult, "idlist", JList(<<>>))
               IN IF ~Truthy(idlist) THEN Return(<<>>)
                  ELSE [tag |-> "request", ids |-> idlist.v]

\* Lines 25-30: from the search response to the identifier list.  The
\* result is an exception, the early return of [], or the identifiers the
\* summary request is issued for.
SearchPhase(resp) ==
  LET body == resp.body IN
  IF ~resp.ok THEN Raise(HTTPError)
  ELSE IF body = JInvalid THEN Raise(JSONDecodeError)
  ELSE IF ~IsDict(body) THEN Raise(AttributeError)
  ELSE LET esearchresult == Get(body, "esearchresult", EmptyDict)
       IN IF ~IsDict(esearchresult) THEN Raise(AttributeError)
          ELSE LET idlist == Get(esearchresult, "idlist", JList(<<>>))
               IN IF ~Truthy(idlist) THEN Return(<<>>)
                  ELSE [tag |-> "request", ids |-> idlist.v]

\* StrOf with get(key) in place of get(key, ""): None, printed "None".
StrOfMissingAsNone(j, key) == IF HasKey(j, key) THEN j.v[key].v ELSE <<"None">>

StrOf(j, key) == IF HasKey(j, key) THEN j.v[key].v ELSE <<>>

\* Paper with the authors' field filled from the summary.
PaperAuthorsFromTitle(id, summary) ==
  Entry("PubmedID", id)
  @@ Entry("Title", IF HasKey(summary, "title") THEN summary.v["title"].v ELSE <<>>)
  @@ Entry("Publication Date",
           IF HasKey(summary, "pubdate") THEN summary.v["pubdate"].v ELSE <<>>)
  @@ Entry("Non-academic Author(s)",
           IF HasKey(summary, "title") THEN summary.v["title"].v ELSE <<>>)
  @@ Entry("Company Affiliation(s)", CompanyPlaceholder)
  @@ Entry("Corresponding Author Email", EmailPlaceholder)

\* Lines 45-52: the record of one identifier.
Paper(id, summary) ==
  Entry("PubmedID", id)
  @@ Entry("Title", StrOf(summary, "title"))
  @@ Entry("Publication Date", StrOf(summary, "pubdate"))
  @@ Entry("Non-academic Author(s)", NonAcademicPlaceholder)
  @@ Entry("Company Affiliation(s)", CompanyPlaceholder)
  @@ Entry("Corresponding Author Email", EmailPlaceholder)

\* Line 44: the summary object of one identifier.
SummaryOf(body, id) == Get(Get(body, "result", EmptyDict), id, EmptyDict)

\* Whether the loop of lines 43-52 raises: .get on a value that is no dict.
LoopRaises(idl, body) ==
  \/ ~IsDict(body)
  \/ ~IsDict(Get(body, "result", EmptyDict))
  \/ \E i \in 1..Len(idl) : ~IsDict(SummaryOf(body, idl[i]))

\* The identifiers of idl that have an entry in the result of body.
RECURSIVE Found(_, _)
Found(idl, body) ==
  IF Len(idl) = 0 THEN <<>>
  ELSE (IF HasKey(Get(body, "result", EmptyDict), idl[1]) THEN <<idl[1]>> ELSE <<>>)
       \o Found(Tail(idl), body)

\* DetailsPhase that skips the identifiers the summary has no entry for.
DetailsPhaseSkipMissing(idl, resp) ==
  LET body == resp.body IN
  IF ~resp.ok THEN Raise(HTTPError)
  ELSE IF body = JInvalid THEN Raise(JSONDecodeError)
  ELSE IF LoopRaises(idl, body) THEN Raise(AttributeError)
  ELSE Return([i \in 1..Len(Found(idl, body)) |->
                 Paper(Found(idl, body)[i], SummaryOf(body, Found(idl, body)[i]))])

\* Lines 39-53: from the summary response to the records.
DetailsPhase(idl, resp) ==
  LET body == resp.body IN
  IF ~resp.ok THEN Raise(HTTPError)
  ELSE IF body = JInvalid THEN Raise(JSONDecodeError)
  ELSE IF LoopRaises(idl, body) THEN Raise(AttributeError)
  ELSE Return([i \in 1..Len(idl) |-> Paper(idl[i], SummaryOf(body, idl[i]))])

\* ------------------------------------------------------------- save_to_csv
Special == {DELIM, QUOTE, CR, LF}

NeedsQuote(field) == \E i \in 1..Len(field) : field[i] \in Special

\* Escape without doublequote: the field is written as it is.
EscapeNoDoubling(field) == field

RECURSIVE Escape(_)
\* doublequote: every quote character of the field is written twice
Escape(field) ==
  IF Len(field) = 0 THEN <<>>
  ELSE (IF field[1] = QUOTE THEN <<QUOTE, QUOTE>> ELSE <<field[1]>>)
       \o Escape(Tail(field))

\* QUOTE_MINIMAL
WriteField(field) ==
  IF NeedsQuote(field) THEN <<QUOTE>> \o Escape(field) \o <<QUOTE>> ELSE field

RECURSIVE JoinFields(_)
JoinFields(row) ==
  IF Len(row) = 0 THEN <<>>
  ELSE IF Len(row) = 1 THEN WriteField(row[1])
  ELSE WriteField(row[1]) \o <<DELIM>> \o JoinFields(Tail(row))

\* csv.writer.writerow: the fields, delimited, and the line terminator
writerow(row) == JoinFields(row) \o <<CR, LF>>

\* DictWriter.writeheader and DictWriter.writerow
HeaderRow == [j \in 1..Len(fieldnames) |-> <<fieldnames[j]>>]
DictRow(paper) == [j \in 1..Len(fieldnames) |-> paper[fieldnames[j]]]

\* The lines save_to_csv writes: the header, then one per record.
CsvLines(ps) ==
  <<writerow(HeaderRow)>> \o [i \in 1..Len(ps) |-> writerow(DictRow(ps[i]))]

RECURSIVE Concat(_)
Concat(ls) == IF Len(ls) = 0 THEN <<>> ELSE ls[1] \o Concat(Tail(ls))

\* What the file system may do to save_to_csv: nothing, refuse the open,
\* or fail a write after n lines were written.
Faults(ps) ==
  {[at |-> "none", n |-> 0], [at |-> "open", n |-> 0]}
  \cup {[at |-> "write", n |-> k] : k \in 0..Len(ps)}

\* save_to_csv that swallows a failure of a write.
save_to_csv_swallow(ps, old, fault) ==
  CASE fault.at = "open" ->
         [file |-> old, opened |-> 0, exc |-> Raise(OSError)]
    [] fault.at = "write" ->
         [file |-> [exists |-> TRUE,
                    data |-> Concat(SubSeq(CsvLines(ps), 1, fault.n))],
          opened |-> 1, exc |-> Return(ps)]
    [] OTHER ->
         [file |-> [exists |-> TRUE, data |-> Concat(CsvLines(ps))],
          opened |-> 1, exc |-> Return(ps)]

\* Lines 57-64.  open(filename, "w") truncates; the with block closes the
\* file on every path, so the lines written before a failure stay in it.
save_to_csv(ps, old, fault) ==
  CASE fault.at = "open" ->
         [file |-> old, opened |-> 0, exc |-> Raise(OSError)]
    [] fault.at = "write" ->
         [file |-> [exists |-> TRUE,
                    data |-> Concat(SubSeq(CsvLines(ps), 1, fault.n))],
          opened |-> 1, exc |-> Raise(OSError)]
    [] OTHER ->
         [file |-> [exists |-> TRUE, data |-> Concat(CsvLines(ps))],
          opened |-> 1, exc |-> Return(ps)]

\* -------------------------------------------------------------------- main
\* Catch with "except requests.HTTPError" in place of "except Exception".
CatchNarrow(e, lg, level) ==
  IF e.type = "HTTPError"
  THEN [log |-> Emit(lg, level, "ERROR", "An error occurred", e.msg), exitCode |-> 0]
  ELSE [log |-> lg, exitCode |-> 1]

\* Catch with a handler that logs nothing.
CatchSilent(e, lg, level) ==
  IF e.type \in ExceptionClasses
  THEN [log |-> lg, exitCode |-> 0]
  ELSE [log |-> lg, exitCode |-> 1]

\* Lines 92-93: the handler of main.  An exception of class Exception is
\* logged and main returns (exit status 0); any other ends the process
\* with a traceback (exit status 1).
Catch(e, lg, level) ==
  IF e.type \in ExceptionClasses
  THEN [log |-> Emit(lg, level, "ERROR", "An error occurred", e.msg), exitCode |-> 0]
  ELSE [log |-> lg, exitCode |-> 1]

\* FileGiven with "args.file is not None" in place of bool(args.file).
FileGivenIsNotNone(a) == a.file.given

\* bool(args.file)
FileGiven(a) == a.file.given /\ a.file.path # ""

\* print(paper): the repr of the record, one line
Repr(paper) == [repr |-> paper]

\* ------------------------------------------------------------- csv.reader
RECURSIVE Parse(_, _, _, _, _, _)
\* The reader's state machine over the content s from position i: st is its
\* state, field and row are the field and the record being read, rows the
\* records read so far.
Parse(s, i, st, field, row, rows) ==
  IF i > Len(s)
  THEN IF st \in {"start_record", "after_cr"} THEN rows
       ELSE Append(rows, Append(row, field))
  ELSE
    LET c == s[i]
        endRecord == Append(rows, Append(row, field))
        nl == IF c = CR THEN "after_cr" ELSE "start_record"
    IN CASE st = "after_cr" ->
              IF c = LF THEN Parse(s, i + 1, "start_record", <<>>, <<>>, rows)
              ELSE Parse(s, i, "start_record", <<>>, <<>>, rows)
         [] st = "start_record" ->
              IF c \in {CR, LF} THEN Parse(s, i + 1, nl, <<>>, <<>>, Append(rows, <<>>))
              ELSE Parse(s, i, "start_field", <<>>, <<>>, rows)
         [] st = "start_field" ->
              IF c \in {CR, LF} THEN Parse(s, i + 1, nl, <<>>, <<>>, endRecord)
              ELSE IF c = QUOTE THEN Parse(s, i + 1, "in_quoted", <<>>, row, rows)
              ELSE IF c = DELIM THEN Parse(s, i + 1, "start_field", <<>>, Append(row, <<>>), rows)
              ELSE Parse(s, i + 1, "in_field", <<c>>, row, rows)
         [] st = "in_field" ->
              IF c \in {CR, LF} THEN Parse(s, i + 1, nl, <<>>, <<>>, endRecord)
              ELSE IF c = DELIM THEN Parse(s, i + 1, "start_field", <<>>, Append(row, field), rows)
              ELSE Parse(s, i + 1, "in_field", Append(field, c), row, rows)
         [] st = "in_quoted" ->
              IF c = QUOTE THEN Parse(s, i + 1, "quote_in_quoted", field, row, rows)
              ELSE Parse(s, i + 1, "in_quoted", Append(field, c), row, rows)
         [] st = "quote_in_quoted" ->
              IF c = QUOTE THEN Parse(s, i + 1, "in_quoted", Append(field, c), row, rows)
              ELSE IF c = DELIM THEN Parse(s, i + 1, "start_field", <<>>, Append(row, field), rows)
              ELSE IF c \in {CR, LF} THEN Parse(s, i + 1, nl, <<>>, <<>>, endRecord)
              ELSE Parse(s, i + 1, "in_field", Append(field, c), row, rows)

\* list(csv.reader(f)) of a file with the content data, opened with newline=""
ReadCsv(data) == Parse(data, 1, "start_record", <<>>, <<>>, <<>>)

\* ----------------------------------------------------------------- actions
Init ==
  /\ pc = "start"
  /\ args \in [query : Queries, file : FileArgs, debug : BOOLEAN]
  /\ loggerLevel = "INFO"
  /\ log = <<>>
  /\ requests = <<>>
  /\ response = NoResponse
  /\ ids = <<>>
  /\ details_response = NoResponse
  /\ papers = <<>>
  /\ fs \in {NoFile, OldFile}
  /\ fs_before = fs
  /\ opens = 0
  /\ stdout = <<>>
  /\ raised = <<>>
  /\ exitCode = -1

\* An exception e leaves the try block of main: lines 92-93, then the
\* process ends.
Fail(e) ==
  LET c == Catch(e, log, loggerLevel)
  IN /\ raised' = Append(raised, e)
     /\ log' = c.log
     /\ exitCode' = c.exitCode
     /\ pc' = "done"

\* Lines 73-80 and 14-24: the arguments are parsed, the level is set, the
\* first message is logged and fetch_papers issues the search request.
MainStart ==
  /\ pc = "start"
  /\ loggerLevel' = IF args.debug THEN "DEBUG" ELSE loggerLevel
  /\ log' = Emit(log, loggerLevel', "INFO", "Fetching papers for query", args.query)
  /\ requests' = Append(requests, SearchRequest(args.query))
  /\ pc' = "search"
  /\ UNCHANGED <<args, response, ids, details_response, papers, fs, fs_before,
                 opens, stdout, raised, exitCode>>

\* Lines 24-38: the search response arrives.
SearchResponse(resp) ==
  /\ pc = "search"
  /\ response' = resp
  /\ LET r == SearchPhase(resp)
     IN CASE r.tag = "raise" ->
               /\ Fail(r.exc)
               /\ UNCHANGED <<requests, ids, papers>>
          [] r.tag = "return" ->
               /\ papers' = r.papers
               /\ pc' = "fetched"
               /\ UNCHANGED <<requests, ids, log, raised, exitCode>>
          [] r.tag = "request" ->
               /\ ids' = r.ids
               /\ requests' = Append(requests, DetailsRequest(r.ids))
               /\ pc' = "summary"
               /\ UNCHANGED <<papers, log, raised, exitCode>>
  /\ UNCHANGED <<args, loggerLevel, details_response, fs, fs_before, opens, stdout>>

\* Lines 38-53: the summary response arrives.
SummaryResponse(resp) ==
  /\ pc = "summary"
  /\ details_response' = resp
  /\ LET r == DetailsPhase(ids, resp)
     IN CASE r.tag = "raise" ->
               /\ Fail(r.exc)
               /\ UNCHANGED papers
          [] r.tag = "return" ->
               /\ papers' = r.papers
               /\ pc' = "fetched"
               /\ UNCHANGED <<log, raised, exitCode>>
  /\ UNCHANGED <<args, loggerLevel, requests, response, ids, fs, fs_before, opens,
                 stdout>>

\* Lines 82-84: nothing was found.
MainNoPapers ==
  /\ pc = "fetched"
  /\ papers = <<>>
  /\ log' = Emit(log, loggerLevel, "INFO", "No papers found for the given query.", "")
  /\ exitCode' = 0
  /\ pc' = "done"
  /\ UNCHANGED <<args, loggerLevel, requests, response, ids, details_response,
                 papers, fs, fs_before, opens, stdout, raised>>

\* Lines 86-88: the records are saved to args.file.
MainSave(fault) ==
  /\ pc = "fetched"
  /\ papers # <<>>
  /\ FileGiven(args)
  /\ LET r == save_to_csv(papers, fs, fault)
     IN /\ fs' = r.file
        /\ opens' = opens + r.opened
        /\ IF r.exc.tag = "raise"
           THEN Fail(r.exc.exc)
           ELSE /\ log' = Emit(log, loggerLevel, "INFO", "Results saved to", args.file.path)
                /\ exitCode' = 0
                /\ pc' = "done"
                /\ UNCHANGED raised
  /\ UNCHANGED <<args, loggerLevel, requests, response, ids, details_response,
                 papers, fs_before, stdout>>

\* Lines 89-91: the records are printed, one line each.
MainPrint ==
  /\ pc = "fetched"
  /\ papers # <<>>
  /\ ~FileGiven(args)
  /\ stdout' = stdout \o [i \in 1..Len(papers) |-> Repr(papers[i])]
  /\ exitCode' = 0
  /\ pc' = "done"
  /\ UNCHANGED <<args, loggerLevel, log, requests, response, ids, details_response,
                 papers, fs, fs_before, opens, raised>>

Next ==
  \/ MainStart
  \/ \E resp \in Responses(SearchBodies) : SearchResponse(resp)
  \/ \E resp \in Responses(DetailsBodies) : SummaryResponse(resp)
  \/ MainNoPapers
  \/ \E fault \in Faults(papers) : MainSave(fault)
  \/ MainPrint

Spec == Init /\ [][Next]_vars

\* ================================================================= claims
SearchArrived == pc \notin {"start", "search"}
SummaryArrived == pc \in {"fetched", "done"} /\ Len(requests) = 2

\* The list at esearchresult.idlist of a successful search response, <<>>
\* when there is none.
SearchIdList ==
  IF /\ SearchArrived
     /\ response.ok
     /\ response.body.k = "obj"
     /\ "esearchresult" \in DOMAIN response.body.v
     /\ response.body.v["esearchresult"].k = "obj"
     /\ "idlist" \in DOMAIN response.body.v["esearchresult"].v
  THEN response.body.v["esearchresult"].v["idlist"].v
  ELSE <<>>

\* The search succeeded and named no identifier: the idlist is empty, or
\* esearchresult or idlist is absent.
ZeroIds ==
  /\ SearchArrived
  /\ response.ok
  /\ response.body.k = "obj"
  /\ \/ "esearchresult" \notin DOMAIN response.body.v
     \/ /\ response.body.v["esearchresult"].k = "obj"
        /\ \/ "idlist" \notin DOMAIN response.body.v["esearchresult"].v
           \/ response.body.v["esearchresult"].v["idlist"] = JList(<<>>)

\* The summary response has a success status and a body that is JSON.
SummaryDecoded ==
  SummaryArrived /\ details_response.ok /\ details_response.body.k # "invalid"

\* One record per identifier of the search response, in its order.
OnePerId ==
  /\ Len(papers) = Len(SearchIdList)
  /\ \A i \in 1..Len(papers) : papers[i]["PubmedID"] = SearchIdList[i]

\* Whatever the summary response holds at result and at result.<id> of an
\* identifier of the search is a mapping.
PresentAreMappings ==
  LET body == details_response.body IN
  /\ body.k = "obj"
  /\ "result" \in DOMAIN body.v =>
       /\ body.v["result"].k = "obj"
       /\ \A i \in 1..Len(SearchIdList) :
            SearchIdList[i] \in DOMAIN body.v["result"].v =>
              body.v["result"].v[SearchIdList[i]].k = "obj"

ErrorLines == {i \in 1..Len(log) : log[i].level = "ERROR"}
Logged(msg) == \E i \in 1..Len(log) : log[i].msg = msg
LastLogged(msg) == Len(log) > 0 /\ log[Len(log)].msg = msg

FullCsv == [exists |-> TRUE, data |-> Concat(CsvLines(papers))]
AllPrinted == [i \in 1..Len(papers) |-> [repr |-> papers[i]]]
PathGiven == args.file.given /\ args.file.path # ""

\* C1 (as claimed): whenever the search names N >= 1 identifiers and the
\* summary response is successful, fetch_papers returns N records whose
\* PubmedID are those identifiers in order, whatever the summary holds.
C1_Original ==
  (SummaryDecoded /\ SearchIdList # <<>>) => OnePerId

\* C1 (amended): whenever the search names N >= 1 identifiers and the summary
\* response is successful, fetch_papers returns N records whose PubmedID are
\* those identifiers in order, provided the summary body is an object whose
\* result and result.<id>, where present, are objects; otherwise it raises
\* AttributeError and returns no record.
C1_Amended ==
  (SummaryDecoded /\ SearchIdList # <<>>) =>
    IF PresentAreMappings
    THEN OnePerId /\ raised \in {<<>>, <<OSError>>}
    ELSE papers = <<>> /\ pc = "done" /\ raised = <<AttributeError>>

C1_Witness ==
  /\ SummaryDecoded
  /\ Len(SearchIdList) = 2
  /\ SearchIdList[1] # SearchIdList[2]
  /\ PresentAreMappings
  /\ "result" \in DOMAIN details_response.body.v
  /\ SearchIdList[2] \notin DOMAIN details_response.body.v["result"].v
  /\ OnePerId

\* C2: when the search succeeds and names no identifier, fetch_papers
\* returns the empty sequence and main logs "No papers found", returns with
\* status 0 and neither opens or writes a file nor prints.
C2_NoPapers ==
  ZeroIds =>
    /\ papers = <<>>
    /\ pc \in {"fetched", "done"}
    /\ raised = <<>>
    /\ opens = 0 /\ fs = fs_before /\ stdout = <<>>
    /\ pc = "done" =>
         /\ log[Len(log)] = [level |-> "INFO",
                             msg |-> "No papers found for the given query.",
                             arg |-> ""]
         /\ ErrorLines = {}
         /\ exitCode = 0

C2_Witness ==
  /\ ZeroIds
  /\ pc = "done"
  /\ args.file = [given |-> TRUE, path |-> "out.csv"]
  /\ "esearchresult" \in DOMAIN response.body.v
  /\ LastLogged("No papers found for the given query.")

\* C3: when the search response has an error status, the script logs an
\* error and ends; it issues no summary request, writes no file and prints
\* nothing.
C3_SearchFails ==
  (SearchArrived /\ ~response.ok) =>
    /\ pc = "done"
    /\ Cardinality(ErrorLines) = 1
    /\ LastLogged("An error occurred")
    /\ Len(requests) = 1
    /\ opens = 0 /\ fs = fs_before /\ stdout = <<>>
    /\ papers = <<>>

C3_Witness ==
  /\ SearchArrived /\ ~response.ok
  /\ pc = "done"
  /\ args.file.path = "out.csv"
  /\ fs = OldFile
  /\ LastLogged("An error occurred")

\* C4: an exception raised between the call of fetch_papers and the end of
\* the sink is caught once by main and logged as one error line that carries
\* its message, and the process ends with status 0; none escapes main.
C4_CaughtOnce ==
  /\ exitCode \in {-1, 0}
  /\ Len(raised) <= 1
  /\ Cardinality(ErrorLines) = Len(raised)
  /\ raised # <<>> =>
       /\ pc = "done"
       /\ exitCode = 0
       /\ log[Len(log)] = [level |-> "ERROR", msg |-> "An error occurred",
                           arg |-> raised[1].msg]
  /\ pc = "done" <=> exitCode = 0

C4_Witness ==
  /\ pc = "done"
  /\ raised = <<OSError>>
  /\ opens = 1
  /\ fs.exists /\ fs # FullCsv /\ Len(fs.data) > 0
  /\ exitCode = 0

\* C5 (as claimed): in a run with a non-empty result, if an output path was
\* supplied the records are in the CSV file and nothing is printed, and if
\* none was supplied every record is printed in order and no file is
\* written; no such run does neither.  (An output path is read here as a
\* non-empty one, the reading most favourable to the claim.)
C5_Original ==
  (pc = "done" /\ papers # <<>>) =>
    IF PathGiven
    THEN fs = FullCsv /\ stdout = <<>>
    ELSE stdout = AllPrinted /\ opens = 0 /\ fs = fs_before

\* C5 (amended): the mode is selected by whether args.file is a non-empty
\* string.  In a run with a non-empty result, with a non-empty path nothing
\* is printed and, unless the run logs an error, the file holds the CSV of
\* all records; with no path or the empty path no file is opened and every
\* record is printed in order.  No run does both, and only a run that logs
\* an error for the file does neither.
C5_Amended ==
  /\ ~(opens > 0 /\ stdout # <<>>)
  /\ (pc = "done" /\ papers # <<>>) =>
       IF PathGiven
       THEN /\ stdout = <<>>
            /\ ErrorLines = {} => (fs = FullCsv /\ opens = 1)
       ELSE /\ opens = 0 /\ fs = fs_before
            /\ stdout = AllPrinted
            /\ ErrorLines = {}

C5_Witness ==
  /\ pc = "done"
  /\ Len(papers) = 2
  /\ args.file = [given |-> TRUE, path |-> ""]
  /\ stdout = AllPrinted
  /\ opens = 0

\* C6: the file save_to_csv has written starts with the header line of the
\* six names; read back as CSV it is the header followed by one row per
\* record in order, each row the six fields of its record; what the file
\* held before is gone.
C6_RoundTrip ==
  (pc = "done" /\ LastLogged("Results saved to")) =>
    LET rows == ReadCsv(fs.data)
        header == <<"PubmedID", ",", "Title", ",", "Publication Date", ",",
                    "Non-academic Author(s)", ",", "Company Affiliation(s)", ",",
                    "Corresponding Author Email", "\r", "\n">>
    IN /\ fs.exists
       /\ Len(fs.data) >= Len(header)
       /\ SubSeq(fs.data, 1, Len(header)) = header
       /\ Len(rows) = Len(papers) + 1
       /\ rows[1] = <<<<"PubmedID">>, <<"Title">>, <<"Publication Date">>,
                      <<"Non-academic Author(s)">>, <<"Company Affiliation(s)">>,
                      <<"Corresponding Author Email">>>>
       /\ \A i \in 1..Len(papers) :
            rows[i + 1] = <<papers[i]["PubmedID"], papers[i]["Title"],
                            papers[i]["Publication Date"],
                            papers[i]["Non-academic Author(s)"],
                            papers[i]["Company Affiliation(s)"],
                            papers[i]["Corresponding Author Email"]>>

C6_Witness ==
  /\ pc = "done"
  /\ LastLogged("Results saved to")
  /\ fs_before = OldFile
  /\ Len(papers) = 2
  /\ papers[1]["Title"] = <<"say ", "\"", "hi", "\"">>
  /\ papers[2]["Title"] = <<"l1", "\n", "l2">>

\* C7: every record fetch_papers returns has exactly the six keys, and its
\* three placeholder fields are the fixed strings.
C7_Placeholders ==
  \A i \in 1..Len(papers) :
    /\ DOMAIN papers[i] = {"PubmedID", "Title", "Publication Date",
                           "Non-academic Author(s)", "Company Affiliation(s)",
                           "Corresponding Author Email"}
    /\ papers[i]["Non-academic Author(s)"] = <<"Heuristic not implemented">>
    /\ papers[i]["Company Affiliation(s)"] = <<"Heuristic not implemented">>
    /\ papers[i]["Corresponding Author Email"] = <<"Not available">>

C7_Witness ==
  /\ Len(papers) = 2
  /\ papers[1]["PubmedID"] # papers[2]["PubmedID"]
  /\ papers[1]["Title"] # <<>>
  /\ papers[2]["Title"] = <<>>

\* The string a summary response holds at result.<id>.<key>, the empty
\* string when result, the entry or the key is absent.
Looked(id, key) ==
  LET body == details_response.body IN
  IF /\ "result" \in DOMAIN body.v
     /\ id \in DOMAIN body.v["result"].v
     /\ key \in DOMAIN body.v["result"].v[id].v
  THEN body.v["result"].v[id].v[key].v
  ELSE <<>>

\* C8: the Title and the Publication Date of the record of an identifier
\* are the title and the pubdate at result.<id> of the summary response, the
\* empty string where result, the entry or the field is absent; an absent
\* result, entry or field skips no identifier and raises nothing.
C8_TitleAndDate ==
  (SummaryDecoded /\ SearchIdList # <<>> /\ PresentAreMappings) =>
    /\ raised = <<>> \/ raised = <<OSError>>
    /\ Len(papers) = Len(SearchIdList)
    /\ \A i \in 1..Len(papers) :
         /\ papers[i]["PubmedID"] = SearchIdList[i]
         /\ papers[i]["Title"] = Looked(SearchIdList[i], "title")
         /\ papers[i]["Publication Date"] = Looked(SearchIdList[i], "pubdate")

C8_Witness ==
  /\ SummaryDecoded
  /\ Len(SearchIdList) = 2
  /\ PresentAreMappings
  /\ "result" \in DOMAIN details_response.body.v
  /\ DOMAIN details_response.body.v["result"].v = {SearchIdList[1]}
  /\ DOMAIN details_response.body.v["result"].v[SearchIdList[1]].v = {"title"}
  /\ Len(papers) = 2
  /\ papers[1]["Title"] = <<"a", ",", "b">>
  /\ papers[1]["Publication Date"] = <<>>
  /\ papers[2]["Title"] = <<>>

\* The id parameter p is the identifiers of l joined by commas, in order.
CommaJoined(p, l) ==
  /\ Len(p) = 2 * Len(l) - 1
  /\ \A i \in 1..Len(l) : <<p[2 * i - 1]>> = l[i]
  /\ \A i \in 1..(Len(l) - 1) : p[2 * i] = ","

\* C9: the search request is issued once and first, the summary request at
\* most once and only after a successful search that named identifiers,
\* with those identifiers comma-joined in order; no request is issued once a
\* call has failed.
C9_Requests ==
  /\ Len(requests) <= 2
  /\ pc # "start" =>
       /\ Len(requests) >= 1
       /\ requests[1].url = "esearch.fcgi"
       /\ requests[1].params = [db |-> "pubmed", term |-> args.query,
                                retmax |-> 10, retmode |-> "json"]
  /\ Len(requests) = 2 =>
       /\ response.ok
       /\ SearchIdList # <<>>
       /\ requests[2].url = "esummary.fcgi"
       /\ requests[2].params.db = "pubmed"
       /\ requests[2].params.retmode = "json"
       /\ CommaJoined(requests[2].params.id, SearchIdList)
  /\ (SearchArrived /\ SearchIdList # <<>>) => Len(requests) = 2
  /\ (SearchArrived /\ (~response.ok \/ ZeroIds)) => Len(requests) = 1
  /\ raised # <<>> => pc = "done"

C9_Witness ==
  /\ pc = "done"
  /\ Len(requests) = 2
  /\ Len(SearchIdList) = 2
  /\ SearchIdList[1] = <<"222">>
  /\ SearchIdList[2] = <<"111">>
  /\ ~details_response.ok

\* C10: the output file is opened only after both calls succeeded and
\* produced a record: when the search fails, the summary fails or nothing is
\* found, the file keeps the content it had; and "Results saved" is logged
\* only when save_to_csv returned, never together with an error.
C10_FileUntouched ==
  /\ (opens > 0 \/ fs # fs_before) =>
       /\ response.ok /\ details_response.ok
       /\ Len(requests) = 2
       /\ papers # <<>>
       /\ PathGiven
  /\ (SearchArrived /\ ~response.ok) => (fs = fs_before /\ opens = 0)
  /\ (SummaryArrived /\ ~details_response.ok) => (fs = fs_before /\ opens = 0)
  /\ (pc \in {"fetched", "done"} /\ papers = <<>>) => (fs = fs_before /\ opens = 0)
  /\ Logged("Results saved to") =>
       /\ pc = "done"
       /\ ErrorLines = {}
       /\ raised = <<>>
       /\ opens = 1
       /\ fs = FullCsv
       /\ LastLogged("Results saved to")

C10_Witness ==
  /\ pc = "done"
  /\ SummaryArrived /\ ~details_response.ok
  /\ args.file.path = "out.csv"
  /\ fs_before = OldFile
  /\ fs = OldFile

====
